---- MODULE Spec2Model ----
(***************************************************************************)
(* nsaudit: audit of the NS delegation of a list of domains.               *)
(*                                                                         *)
(* The module models src/nsaudit.go: the producer goroutine, the worker    *)
(* pool, main's wait/close/aggregation, checkDomain, domainParent with the *)
(* package-level nsCache map, queryNS, query and compareNS.                *)
(*                                                                         *)
(* Strings whose characters matter (domain names) are sequences of         *)
(* one-character strings; host names of name servers are atomic strings.   *)
(***************************************************************************)
EXTENDS Integers, Sequences, FiniteSets, TLC

(***************************************************************************)
(* Bounds of the model.                                                    *)
(***************************************************************************)
\* longest domain file explored
MaxDomains == 2
\* largest worker count (-w) explored
MaxW == 2
\* largest channel buffer (-c) explored
MaxCB == 2
\* largest retry count (-r) explored for a single query
MaxRE == 3
\* retry count (-r) of the pipeline runs
PipelineRE == 2

Workers == 1..MaxW

(***************************************************************************)
(* Values.                                                                 *)
(***************************************************************************)
\* the lines the domain file may hold: "a.c" and "b.c."
Lines == { <<"a", ".", "c">>, <<"b", ".", "c", ".">> }

\* name-server host names as DNS returns them
Hosts == { "ns1.", "ns2." }

\* the zero value of a Go string
NoHost == ""
NoDomain == << >>

\* a nil error
NoErr == [kind |-> "nil"]

\* a mapset.Set that was never assigned (nil), and a populated one
NilSet == [populated |-> FALSE, elems |-> {}]
NewSet(S) == [populated |-> TRUE, elems |-> S]

\* the zero value of DomainNS
ZeroDomainNS ==
    [Domain |-> NoDomain, Error |-> NoErr, RegistrarNS |-> NilSet, ZoneNS |-> NilSet]

\* a nil *dns.Msg
NilMsg == [nil |-> TRUE]

\* resource records of a response section
RRNS(h) == [type |-> "NS", Ns |-> h]
RRA(h) == [type |-> "A", Ns |-> h]

\* a *dns.Msg as far as the program reads it: Rcode, Ns (authority), Answer
Msg(rcode, ns, answer) == [nil |-> FALSE, Rcode |-> rcode, Ns |-> ns, Answer |-> answer]

\* dns.RcodeSuccess
RcodeSuccess == 0

\* the responses a server may give
Msgs ==
    { Msg(RcodeSuccess, << RRNS("ns1.") >>, << RRNS("ns1.") >>),
      Msg(RcodeSuccess, << RRNS("ns2."), RRA("ns1.") >>, << RRA("ns2."), RRNS("ns1."), RRNS("ns1.") >>),
      \* Rcode 2 is SERVFAIL
      Msg(2, << RRNS("ns1.") >>, << >>) }

\* what one c.Exchange call returns, (r, err): a failure without a response,
\* a failure that still hands back the message it read, or a response
ErrTimeout == [kind |-> "net", msg |-> "i/o timeout"]
ErrTruncated == [kind |-> "net", msg |-> "dns: failed to unpack truncated message"]
Exchanges ==
    { [r |-> NilMsg, err |-> ErrTimeout],
      [r |-> Msg(RcodeSuccess, << >>, << >>), err |-> ErrTruncated] } \cup
    { [r |-> m, err |-> NoErr] : m \in Msgs }

\* what net.LookupNS returns: (hosts, err)
LookupErr == [kind |-> "net", msg |-> "no such host"]
Lookups ==
    { [hosts |-> << >>, err |-> LookupErr],
      [hosts |-> << >>, err |-> NoErr],
      [hosts |-> << "ns1." >>, err |-> NoErr],
      [hosts |-> << "ns1.", "ns2." >>, err |-> NoErr],
      [hosts |-> << "ns2.", "ns1." >>, err |-> NoErr] }

(***************************************************************************)
(* strings.Split(s, ".") and strings.Join(parts, ".")                      *)
(***************************************************************************)
RECURSIVE SplitFrom(_, _, _)
\* the parts of s[i..], cur being the part read so far
SplitFrom(s, i, cur) ==
    IF i > Len(s) THEN << cur >>
    ELSE IF s[i] = "." THEN << cur >> \o SplitFrom(s, i + 1, << >>)
    ELSE SplitFrom(s, i + 1, Append(cur, s[i]))

Split(s) == SplitFrom(s, 1, << >>)

RECURSIVE Join(_)
Join(parts) ==
    IF Len(parts) = 0 THEN << >>
    ELSE IF Len(parts) = 1 THEN parts[1]
    ELSE parts[1] \o << "." >> \o Join(Tail(parts))

(***************************************************************************)
(* Configuration and state of one run.                                     *)
(***************************************************************************)
VARIABLES
    argsCB,             \* -c: capacity of inChan and of outChan
    argsW,              \* -w: number of workers
    argsRE,             \* -r: attempts of one query
    requiredNS,         \* the required name servers (a populated set)
    file,               \* the lines of the domain file
    scanned,            \* lines the producer has sent to inChan
    pcProd,             \* producer goroutine: "scan", "finished"
    inChan,             \* buffered channel of domains
    outChan,            \* buffered channel of DomainNS
    outClosed,          \* close(outChan) was executed
    pcMain,             \* main: where it is
    started,            \* the loop variable i of main's worker loop
    wg,                 \* counter of the sync.WaitGroup
    pc,                 \* per worker: where it is
    domain,             \* per worker: the normalized domain of checkDomain
    parentNS,           \* per worker: parentNS of domainParent
    zoneNS,             \* per worker: zoneNS of domainParent
    domainNS,           \* per worker: the DomainNS checkDomain returns
    err,                \* per worker: the error checkDomain returns
    nsCache,            \* the package-level map parent -> host
    totalDomains,       \* main's counters
    totalErrors,
    domainsWithErrors,
    lookups,            \* per parent zone: net.LookupNS(parent) calls made
    qArgs,              \* arguments of a call of query under SpecQuery
    qRes,               \* what that call returned
    cArgs,              \* arguments of a call of compareNS under SpecCompare
    cRes                \* what that call returned

cfgVars == << argsCB, argsW, argsRE, requiredNS, file >>
prodVars == << scanned, pcProd >>
mainVars == << pcMain, started, totalDomains, totalErrors, domainsWithErrors >>
workerVars == << pc, domain, parentNS, zoneNS, domainNS, err >>
fnVars == << qArgs, qRes, cArgs, cRes >>
vars == << cfgVars, prodVars, mainVars, workerVars, fnVars,
           inChan, outChan, outClosed, wg, nsCache, lookups >>

(***************************************************************************)
(* checkDomain, lines 193-195: the trailing dot.                           *)
(***************************************************************************)
\* Go's s[i:] (i counted from 0)
SliceFrom(s, i) == SubSeq(s, i + 1, Len(s))

Normalize(d) ==
    IF SliceFrom(d, Len(d)) # << "." >> THEN d \o << "." >> ELSE d

(***************************************************************************)
(* domainParent, lines 270-271: the parent zone of a domain.               *)
(***************************************************************************)
ParentOf(d) == Join(Tail(Split(d)))

(***************************************************************************)
(* query, lines 252-266.  net[i] is what the i-th c.Exchange returns.      *)
(***************************************************************************)
\* fmt's %s of an error value
ErrText(e) == IF e = NoErr THEN "%!s(<nil>)" ELSE e.msg

TooManyRetries(d, server, last) ==
    [kind |-> "retries", msg |-> "Too many retries looking up NS records",
     domain |-> d, server |-> server, last |-> ErrText(last)]

RECURSIVE queryLoopShort(_, _, _, _, _)
\* the loop with the bound i < *argsRE: the last attempt is never made
queryLoopShort(i, d, server, net, e) ==
    IF i < argsRE
    THEN IF net[i].err = NoErr
         THEN [r |-> net[i].r, err |-> NoErr, sent |-> i]
         ELSE queryLoopShort(i + 1, d, server, net, net[i].err)
    ELSE [r |-> NilMsg, err |-> TooManyRetries(d, server, e), sent |-> i - 1]

RECURSIVE queryLoopKeepsR(_, _, _, _, _)
\* the loop ending in a bare return: r is what the last attempt left in it
queryLoopKeepsR(i, d, server, net, e) ==
    IF i <= argsRE
    THEN IF net[i].err = NoErr
         THEN [r |-> net[i].r, err |-> NoErr, sent |-> i]
         ELSE queryLoopKeepsR(i + 1, d, server, net, net[i].err)
    ELSE [r |-> IF i > 1 THEN net[i - 1].r ELSE NilMsg,
          err |-> TooManyRetries(d, server, e), sent |-> i - 1]

RECURSIVE queryLoop(_, _, _, _, _)
\* the loop from attempt i on; e is err as the previous attempt left it
queryLoop(i, d, server, net, e) ==
    IF i <= argsRE
    THEN IF net[i].err = NoErr
         THEN [r |-> net[i].r, err |-> NoErr, sent |-> i]
         ELSE queryLoop(i + 1, d, server, net, net[i].err)
    ELSE [r |-> NilMsg, err |-> TooManyRetries(d, server, e), sent |-> i - 1]

query(d, server, net) == queryLoop(1, d, server, net, NoErr)

(***************************************************************************)
(* queryNS, lines 220-250.                                                 *)
(***************************************************************************)
BadResponse(d) == [kind |-> "rcode", msg |-> "Bad response for domain", domain |-> d]

\* the Ns fields of the NS records of a section (lines 242-246)
NSNames(section) ==
    { section[k].Ns : k \in { j \in 1..Len(section) : section[j].type = "NS" } }

\* queryNS without the test of r.Rcode (lines 226-230)
queryNSAnyRcode(d, nameServer, checkNS, net) ==
    LET q == query(d, nameServer, net) IN
    IF q.err # NoErr
    THEN [set |-> NilSet, err |-> q.err, sent |-> q.sent]
    ELSE [set |-> NewSet(NSNames(IF checkNS THEN q.r.Ns ELSE q.r.Answer)),
          err |-> NoErr, sent |-> q.sent]

queryNS(d, nameServer, checkNS, net) ==
    LET q == query(d, nameServer, net) IN
    IF q.err # NoErr
    THEN [set |-> NilSet, err |-> q.err, sent |-> q.sent]
    ELSE IF q.r.Rcode # RcodeSuccess
    THEN [set |-> NilSet, err |-> BadResponse(d), sent |-> q.sent]
    ELSE [set |-> NewSet(NSNames(IF checkNS THEN q.r.Ns ELSE q.r.Answer)),
          err |-> NoErr, sent |-> q.sent]

\* the registrar view read from the Answer section
RegistrarQueryFromAnswer(d, server, net) == queryNS(d, server, FALSE, net)

\* checkDomain, line 206: the registrar view, from the Ns (authority) section
RegistrarQuery(d, server, net) == queryNS(d, server, TRUE, net)

\* checkDomain, line 212: the zone view, from the Answer section
ZoneQuery(d, server, net) == queryNS(d, server, FALSE, net)

(***************************************************************************)
(* compareNS, lines 146-187.                                               *)
(* nilPanics: whether the set library of the build panics when Difference  *)
(* meets a nil set (the library is not part of the repository; a set that  *)
(* is a map type treats nil as empty, a set that is an interface panics).  *)
(***************************************************************************)
Difference(a, b) == a.elems \ b.elems

Line(level, text, members) == [level |-> level, text |-> text, members |-> members]

\* the four comparisons in the order of the code: receiver, argument, line
Comparisons(required, d) ==
    << [a |-> required, b |-> d.RegistrarNS, level |-> "ERROR", text |-> "Required, not in registrar"],
       [a |-> d.RegistrarNS, b |-> required, level |-> "ERROR", text |-> "In registrar, not required"],
       [a |-> d.ZoneNS, b |-> d.RegistrarNS, level |-> "WARN", text |-> "In zone, not in registrar"],
       [a |-> d.RegistrarNS, b |-> d.ZoneNS, level |-> "WARN", text |-> "In registrar, not in zone"] >>

RECURSIVE compareFromBySize(_, _, _, _, _)
\* the comparisons counting the members of each difference
compareFromBySize(k, cmps, nilPanics, errors, out) ==
    IF k > Len(cmps)
    THEN [errors |-> errors, panic |-> FALSE, compared |-> Len(cmps),
          out |-> IF errors = 0 THEN Append(out, Line("OK", "OK", {})) ELSE out]
    ELSE IF nilPanics /\ (~cmps[k].a.populated \/ ~cmps[k].b.populated)
    THEN [errors |-> errors, panic |-> TRUE, compared |-> k - 1, out |-> out]
    ELSE LET diff == Difference(cmps[k].a, cmps[k].b) IN
         IF Cardinality(diff) > 0
         THEN compareFromBySize(k + 1, cmps, nilPanics, errors + Cardinality(diff),
                                Append(out, Line(cmps[k].level, cmps[k].text, diff)))
         ELSE compareFromBySize(k + 1, cmps, nilPanics, errors, out)

RECURSIVE compareFrom(_, _, _, _, _)
\* comparisons k.. of cmps, with the count and the printed lines so far
compareFrom(k, cmps, nilPanics, errors, out) ==
    IF k > Len(cmps)
    THEN [errors |-> errors, panic |-> FALSE, compared |-> Len(cmps),
          out |-> IF errors = 0 THEN Append(out, Line("OK", "OK", {})) ELSE out]
    ELSE IF nilPanics /\ (~cmps[k].a.populated \/ ~cmps[k].b.populated)
    THEN [errors |-> errors, panic |-> TRUE, compared |-> k - 1, out |-> out]
    ELSE LET diff == Difference(cmps[k].a, cmps[k].b) IN
         IF Cardinality(diff) > 0
         THEN compareFrom(k + 1, cmps, nilPanics, errors + 1,
                          Append(out, Line(cmps[k].level, cmps[k].text, diff)))
         ELSE compareFrom(k + 1, cmps, nilPanics, errors, out)

compareNS(required, d, nilPanics) ==
    IF d.Error # NoErr
    THEN [errors |-> 1, panic |-> FALSE, compared |-> 0,
          out |-> << Line("CRIT", d.Error.msg, {}) >>]
    ELSE compareFrom(1, Comparisons(required, d), nilPanics, 0, << >>)


(***************************************************************************)
(* The pipeline: initial state at line 75 (channels made, producer         *)
(* goroutine started, no worker started).                                  *)
(***************************************************************************)
Files == UNION { [1..n -> Lines] : n \in 0..MaxDomains }

\* requiredNS after lines 41-49: populated and not empty
RequiredSets == { NewSet({ "ns1." }), NewSet({ "ns1.", "ns2." }) }

Parents == { ParentOf(Normalize(l)) : l \in Lines }

NoCall == [called |-> FALSE]

PipelineInit ==
    /\ scanned = 0
    /\ pcProd = "scan"
    /\ inChan = << >>
    /\ outChan = << >>
    /\ outClosed = FALSE
    /\ pcMain = "spawn"
    /\ started = 0
    /\ wg = 0
    /\ pc = [w \in Workers |-> "idle"]
    /\ domain = [w \in Workers |-> NoDomain]
    /\ parentNS = [w \in Workers |-> NoHost]
    /\ zoneNS = [w \in Workers |-> NoHost]
    /\ domainNS = [w \in Workers |-> ZeroDomainNS]
    /\ err = [w \in Workers |-> NoErr]
    /\ nsCache = {}
    /\ totalDomains = 0
    /\ totalErrors = 0
    /\ domainsWithErrors = 0
    /\ lookups = [p \in Parents |-> 0]

Init ==
    /\ argsCB \in 1..MaxCB
    /\ argsW \in 1..MaxW
    /\ argsRE = PipelineRE
    /\ requiredNS \in RequiredSets
    /\ file \in Files
    /\ PipelineInit
    /\ qArgs = NoCall /\ qRes = NoCall /\ cArgs = NoCall /\ cRes = NoCall

\* the process runs: main has not returned and nothing has crashed it
Alive == pcMain \notin { "exit", "panic", "fatal" }

(***************************************************************************)
(* Producer goroutine, lines 67-74.                                        *)
(***************************************************************************)
ProducerSend ==
    /\ Alive /\ pcProd = "scan"
    /\ scanned < Len(file)
    /\ Len(inChan) < argsCB
    /\ inChan' = Append(inChan, file[scanned + 1])
    /\ scanned' = scanned + 1
    /\ UNCHANGED << cfgVars, pcProd, mainVars, workerVars, fnVars,
                    outChan, outClosed, wg, nsCache, lookups >>

ProducerFinish ==
    /\ Alive /\ pcProd = "scan"
    /\ scanned = Len(file)
    /\ pcProd' = "finished"
    /\ UNCHANGED << cfgVars, scanned, mainVars, workerVars, fnVars,
                    inChan, outChan, outClosed, wg, nsCache, lookups >>

(***************************************************************************)
(* main, lines 76-107: start the workers, wait for them, close outChan.    *)
(***************************************************************************)
StartWorker ==
    /\ pcMain = "spawn"
    /\ started < argsW
    /\ wg' = wg + 1
    /\ pc' = [pc EXCEPT ![started + 1] = "select"]
    /\ started' = started + 1
    /\ pcMain' = IF started + 1 < argsW THEN "spawn" ELSE "wait"
    /\ UNCHANGED << cfgVars, prodVars, totalDomains, totalErrors, domainsWithErrors,
                    domain, parentNS, zoneNS, domainNS, err, fnVars,
                    inChan, outChan, outClosed, nsCache, lookups >>

\* main going on to close(outChan) without wg.Wait()
WaitWorkersNoWait ==
    /\ pcMain = "wait"
    /\ pcMain' = "close"
    /\ UNCHANGED << cfgVars, prodVars, started, totalDomains, totalErrors,
                    domainsWithErrors, workerVars, fnVars,
                    inChan, outChan, outClosed, wg, nsCache, lookups >>

WaitWorkers ==
    /\ pcMain = "wait"
    /\ wg = 0
    /\ pcMain' = "close"
    /\ UNCHANGED << cfgVars, prodVars, started, totalDomains, totalErrors,
                    domainsWithErrors, workerVars, fnVars,
                    inChan, outChan, outClosed, wg, nsCache, lookups >>

CloseOutChan ==
    /\ pcMain = "close"
    /\ outClosed' = TRUE
    /\ pcMain' = "aggregate"
    /\ UNCHANGED << cfgVars, prodVars, started, totalDomains, totalErrors,
                    domainsWithErrors, workerVars, fnVars,
                    inChan, outChan, wg, nsCache, lookups >>

(***************************************************************************)
(* Worker goroutine, lines 82-98.                                          *)
(***************************************************************************)
\* case domain := <-inChan, and checkDomain up to its call of net.LookupNS
WorkerRecv(w) ==
    /\ Alive /\ pc[w] = "select"
    /\ Len(inChan) > 0
    /\ inChan' = Tail(inChan)
    /\ domain' = [domain EXCEPT ![w] = Normalize(Head(inChan))]
    /\ domainNS' = [domainNS EXCEPT ![w] =
                        [ZeroDomainNS EXCEPT !.Domain = Normalize(Head(inChan))]]
    /\ pc' = [pc EXCEPT ![w] = "lookupZone"]
    /\ UNCHANGED << cfgVars, prodVars, mainVars, parentNS, zoneNS, err, fnVars,
                    outChan, outClosed, wg, nsCache, lookups >>

\* default: return, and the deferred wg.Done()
WorkerDefault(w) ==
    /\ Alive /\ pc[w] = "select"
    /\ Len(inChan) = 0
    /\ pc' = [pc EXCEPT ![w] = "exited"]
    /\ wg' = wg - 1
    /\ UNCHANGED << cfgVars, prodVars, mainVars, domain, parentNS, zoneNS,
                    domainNS, err, fnVars, inChan, outChan, outClosed, nsCache, lookups >>

\* outChan <- domainNS (after the log of lines 90-92)
WorkerSend(w) ==
    /\ Alive /\ pc[w] = "send"
    /\ Len(outChan) < argsCB
    /\ outChan' = Append(outChan, domainNS[w])
    /\ pc' = [pc EXCEPT ![w] = "select"]
    /\ domain' = [domain EXCEPT ![w] = NoDomain]
    /\ parentNS' = [parentNS EXCEPT ![w] = NoHost]
    /\ zoneNS' = [zoneNS EXCEPT ![w] = NoHost]
    /\ domainNS' = [domainNS EXCEPT ![w] = ZeroDomainNS]
    /\ err' = [err EXCEPT ![w] = NoErr]
    /\ UNCHANGED << cfgVars, prodVars, mainVars, fnVars,
                    inChan, outClosed, wg, nsCache, lookups >>


(***************************************************************************)
(* checkDomain (lines 189-218) and domainParent (lines 268-305), as run by *)
(* worker w.  A step ends where the worker calls the resolver, the network *)
(* or touches nsCache.                                                     *)
(***************************************************************************)
CouldNotFind(d) == [kind |-> "nons", msg |-> "Could not find NS for domain", domain |-> d]
CouldNotFindTld(p) ==
    [kind |-> "nons", msg |-> "Could not find NS for domains's tld", domain |-> p]

\* nsCache is a set of entries, at most one per parent
CacheHas(c, p) == \E e \in c : e.parent = p
CacheGet(c, p) == (CHOOSE e \in c : e.parent = p).host
CachePut(c, p, h) == { e \in c : e.parent # p } \cup { [parent |-> p, host |-> h] }

\* domainParent returned e: lines 199-202 of checkDomain
LocateFailed(w, e) ==
    /\ domainNS' = [domainNS EXCEPT ![w].Error = e]
    /\ err' = [err EXCEPT ![w] = e]
    /\ pc' = [pc EXCEPT ![w] = "send"]

\* net.LookupNS(domain), lines 273-281; on success the worker goes on to read
\* nsCache[parent] (line 284)
LookupZone(w) ==
    /\ Alive /\ pc[w] = "lookupZone"
    /\ \E l \in Lookups :
         IF l.err # NoErr
         THEN LocateFailed(w, l.err) /\ UNCHANGED zoneNS
         ELSE IF Len(l.hosts) = 0
         THEN LocateFailed(w, CouldNotFind(domain[w])) /\ UNCHANGED zoneNS
         ELSE /\ zoneNS' = [zoneNS EXCEPT ![w] = l.hosts[1]]
              /\ pc' = [pc EXCEPT ![w] = "cacheRead"]
              /\ UNCHANGED << domainNS, err >>
    /\ UNCHANGED << cfgVars, prodVars, mainVars, domain, parentNS, fnVars,
                    inChan, outChan, outClosed, wg, nsCache, lookups >>

\* the read of nsCache[parent] at line 284 ends.  The map is not locked: a
\* read that overlaps a write of another worker is a data race, after which
\* the runtime may abort the process, or the read may see the map without
\* or with that write.
CacheRead(w) ==
    /\ Alive /\ pc[w] = "cacheRead"
    /\ LET p == ParentOf(domain[w])
           writers == { v \in Workers \ {w} : pc[v] = "cacheWrite" }
           views == { nsCache } \cup
                    { CachePut(nsCache, ParentOf(domain[v]), parentNS[v]) : v \in writers }
       IN \/ /\ \E c \in views :
                   IF CacheHas(c, p)
                   THEN /\ parentNS' = [parentNS EXCEPT ![w] = CacheGet(c, p)]
                        /\ pc' = [pc EXCEPT ![w] = "queryRegistrar"]
                   ELSE /\ pc' = [pc EXCEPT ![w] = "lookupParent"]
                        /\ UNCHANGED parentNS
             /\ UNCHANGED pcMain
          \/ /\ writers # {}
             /\ pcMain' = "fatal"
             /\ UNCHANGED << pc, parentNS >>
    /\ UNCHANGED << cfgVars, prodVars, started, totalDomains, totalErrors,
                    domainsWithErrors, domain, zoneNS, domainNS, err, fnVars,
                    inChan, outChan, outClosed, wg, nsCache, lookups >>

\* domainParent without the test of lines 296-299: an empty answer is
\* stored like any other
LookupParentNoLenCheck(w) ==
    /\ Alive /\ pc[w] = "lookupParent"
    /\ lookups' = [lookups EXCEPT ![ParentOf(domain[w])] = @ + 1]
    /\ \E l \in Lookups :
         IF l.err # NoErr
         THEN LocateFailed(w, l.err) /\ UNCHANGED parentNS
         ELSE /\ parentNS' = [parentNS EXCEPT ![w] =
                                  IF Len(l.hosts) = 0 THEN NoHost ELSE l.hosts[1]]
              /\ pc' = [pc EXCEPT ![w] = "cacheWrite"]
              /\ UNCHANGED << domainNS, err >>
    /\ UNCHANGED << cfgVars, prodVars, mainVars, domain, zoneNS, fnVars,
                    inChan, outChan, outClosed, wg, nsCache >>

\* net.LookupNS(parent), lines 291-301; on success the worker goes on to
\* write nsCache[parent] (line 302)
LookupParent(w) ==
    /\ Alive /\ pc[w] = "lookupParent"
    /\ lookups' = [lookups EXCEPT ![ParentOf(domain[w])] = @ + 1]
    /\ \E l \in Lookups :
         IF l.err # NoErr
         THEN LocateFailed(w, l.err) /\ UNCHANGED parentNS
         ELSE IF Len(l.hosts) = 0
         THEN LocateFailed(w, CouldNotFindTld(ParentOf(domain[w]))) /\ UNCHANGED parentNS
         ELSE /\ parentNS' = [parentNS EXCEPT ![w] = l.hosts[1]]
              /\ pc' = [pc EXCEPT ![w] = "cacheWrite"]
              /\ UNCHANGED << domainNS, err >>
    /\ UNCHANGED << cfgVars, prodVars, mainVars, domain, zoneNS, fnVars,
                    inChan, outChan, outClosed, wg, nsCache >>

\* the write of nsCache[parent] at line 302 ends; a write that overlaps an
\* access of another worker is a data race, after which the runtime may
\* abort the process
CacheWrite(w) ==
    /\ Alive /\ pc[w] = "cacheWrite"
    /\ \/ /\ nsCache' = CachePut(nsCache, ParentOf(domain[w]), parentNS[w])
          /\ pc' = [pc EXCEPT ![w] = "queryRegistrar"]
          /\ UNCHANGED pcMain
       \/ /\ \E v \in Workers \ {w} : pc[v] \in { "cacheRead", "cacheWrite" }
          /\ pcMain' = "fatal"
          /\ UNCHANGED << pc, nsCache >>
    /\ UNCHANGED << cfgVars, prodVars, started, totalDomains, totalErrors,
                    domainsWithErrors, domain, parentNS, zoneNS, domainNS, err, fnVars,
                    inChan, outChan, outClosed, wg, lookups >>

\* what the server of a query may do over the attempts
Nets == [1..argsRE -> Exchanges]

\* checkDomain without the return of lines 207-209: the zone query follows a
\* failed registrar query
QueryRegistrarNoReturn(w) ==
    /\ Alive /\ pc[w] = "queryRegistrar"
    /\ \E net \in Nets :
         LET q == RegistrarQuery(domain[w], parentNS[w], net) IN
         /\ domainNS' = [domainNS EXCEPT ![w].RegistrarNS = q.set]
         /\ err' = [err EXCEPT ![w] = q.err]
         /\ pc' = [pc EXCEPT ![w] = "queryZone"]
    /\ UNCHANGED << cfgVars, prodVars, mainVars, domain, parentNS, zoneNS, fnVars,
                    inChan, outChan, outClosed, wg, nsCache, lookups >>

\* domainNS.RegistrarNS, err = queryNS(domain, parentNS, true), lines 206-209
QueryRegistrar(w) ==
    /\ Alive /\ pc[w] = "queryRegistrar"
    /\ \E net \in Nets :
         LET q == RegistrarQuery(domain[w], parentNS[w], net) IN
         /\ domainNS' = [domainNS EXCEPT ![w].RegistrarNS = q.set]
         /\ err' = [err EXCEPT ![w] = q.err]
         /\ pc' = [pc EXCEPT ![w] = IF q.err # NoErr THEN "send" ELSE "queryZone"]
    /\ UNCHANGED << cfgVars, prodVars, mainVars, domain, parentNS, zoneNS, fnVars,
                    inChan, outChan, outClosed, wg, nsCache, lookups >>

\* domainNS.ZoneNS, err = queryNS(domain, zoneNS, false), lines 212-217
QueryZone(w) ==
    /\ Alive /\ pc[w] = "queryZone"
    /\ \E net \in Nets :
         LET q == ZoneQuery(domain[w], zoneNS[w], net) IN
         /\ domainNS' = [domainNS EXCEPT ![w].ZoneNS = q.set]
         /\ err' = [err EXCEPT ![w] = q.err]
         /\ pc' = [pc EXCEPT ![w] = "send"]
    /\ UNCHANGED << cfgVars, prodVars, mainVars, domain, parentNS, zoneNS, fnVars,
                    inChan, outChan, outClosed, wg, nsCache, lookups >>

(***************************************************************************)
(* main, lines 109-142: the aggregation loop and the statistics.  outChan  *)
(* is closed before the loop starts, so a receive is always ready and the  *)
(* default case of the select (line 129) is never taken.                   *)
(***************************************************************************)
\* case domainNS, ok := <-outChan with ok true, lines 118-124
AggregateResult ==
    /\ pcMain = "aggregate"
    /\ Len(outChan) > 0
    /\ outChan' = Tail(outChan)
    /\ totalDomains' = totalDomains + 1
    /\ \E nilPanics \in BOOLEAN :
         LET c == compareNS(requiredNS, Head(outChan), nilPanics) IN
         IF c.panic
         THEN /\ pcMain' = "panic"
              /\ UNCHANGED << totalErrors, domainsWithErrors >>
         ELSE /\ totalErrors' = IF c.errors > 0 THEN totalErrors + c.errors ELSE totalErrors
              /\ domainsWithErrors' =
                     IF c.errors > 0 THEN domainsWithErrors + 1 ELSE domainsWithErrors
              /\ UNCHANGED pcMain
    /\ UNCHANGED << cfgVars, prodVars, started, workerVars, fnVars,
                    inChan, outClosed, wg, nsCache, lookups >>

\* the loop taking the close of outChan as its end while results are buffered
AggregateDoneEarly ==
    /\ pcMain = "aggregate"
    /\ outClosed
    /\ pcMain' = "stats"
    /\ UNCHANGED << cfgVars, prodVars, started, totalDomains, totalErrors,
                    domainsWithErrors, workerVars, fnVars,
                    inChan, outChan, outClosed, wg, nsCache, lookups >>

\* the receive from the closed and empty channel: ok false, lines 125-135
AggregateDone ==
    /\ pcMain = "aggregate"
    /\ Len(outChan) = 0
    /\ outClosed
    /\ pcMain' = "stats"
    /\ UNCHANGED << cfgVars, prodVars, started, totalDomains, totalErrors,
                    domainsWithErrors, workerVars, fnVars,
                    inChan, outChan, outClosed, wg, nsCache, lookups >>

\* lines 138-142, and main returns
PrintStats ==
    /\ pcMain = "stats"
    /\ pcMain' = "exit"
    /\ UNCHANGED << cfgVars, prodVars, started, totalDomains, totalErrors,
                    domainsWithErrors, workerVars, fnVars,
                    inChan, outChan, outClosed, wg, nsCache, lookups >>

Next ==
    \/ ProducerSend
    \/ ProducerFinish
    \/ StartWorker
    \/ WaitWorkers
    \/ CloseOutChan
    \/ AggregateResult
    \/ AggregateDone
    \/ PrintStats
    \/ \E w \in Workers :
         \/ WorkerRecv(w)
         \/ WorkerDefault(w)
         \/ LookupZone(w)
         \/ CacheRead(w)
         \/ LookupParent(w)
         \/ CacheWrite(w)
         \/ QueryRegistrar(w)
         \/ QueryZone(w)
         \/ WorkerSend(w)

Spec == Init /\ [][Next]_vars


(***************************************************************************)
(* SpecQuery: one call of queryNS (and of the query it makes) on every     *)
(* retry count, server behaviour and section choice.                       *)
(***************************************************************************)
QueryInit ==
    /\ argsCB = 1 /\ argsW = 1
    /\ requiredNS = NewSet({ "ns1." })
    /\ file = << >>
    /\ PipelineInit
    /\ argsRE \in 0..MaxRE
    /\ qArgs \in [called : { TRUE },
                  domain : { Normalize(l) : l \in Lines },
                  server : Hosts,
                  checkNS : BOOLEAN,
                  net : [1..MaxRE -> Exchanges]]
    /\ qRes = NoCall /\ cArgs = NoCall /\ cRes = NoCall

CallQueryNS ==
    /\ qArgs # NoCall /\ qRes = NoCall
    /\ qRes' = [called |-> TRUE,
                query |-> query(qArgs.domain, qArgs.server, qArgs.net),
                queryNS |-> queryNS(qArgs.domain, qArgs.server, qArgs.checkNS, qArgs.net),
                registrar |-> RegistrarQuery(qArgs.domain, qArgs.server, qArgs.net),
                zone |-> ZoneQuery(qArgs.domain, qArgs.server, qArgs.net)]
    /\ UNCHANGED << cfgVars, prodVars, mainVars, workerVars, qArgs, cArgs, cRes,
                    inChan, outChan, outClosed, wg, nsCache, lookups >>

QueryNext == CallQueryNS

SpecQuery == QueryInit /\ [][QueryNext]_vars

(***************************************************************************)
(* SpecCompare: one call of compareNS on every required set and every      *)
(* DomainNS checkDomain can return.                                        *)
(***************************************************************************)
CompareHosts == Hosts \cup { "ns3." }

PopulatedSets == { NewSet(S) : S \in SUBSET CompareHosts }

\* the shapes of checkDomain's result: Error set; the registrar query
\* failed; the zone query failed; all steps succeeded
AuditResults ==
    { [ZeroDomainNS EXCEPT !.Domain = d, !.Error = e] :
          d \in { Normalize(l) : l \in Lines }, e \in { LookupErr } } \cup
    { [ZeroDomainNS EXCEPT !.Domain = d] : d \in { Normalize(l) : l \in Lines } } \cup
    { [ZeroDomainNS EXCEPT !.Domain = Normalize(<< "a", ".", "c" >>), !.RegistrarNS = r] :
          r \in PopulatedSets } \cup
    { [ZeroDomainNS EXCEPT !.Domain = Normalize(<< "a", ".", "c" >>),
                           !.RegistrarNS = r, !.ZoneNS = z] :
          r \in PopulatedSets, z \in PopulatedSets }

CompareInit ==
    /\ argsCB = 1 /\ argsW = 1 /\ argsRE = 1
    /\ requiredNS \in PopulatedSets \ { NewSet({}) }
    /\ file = << >>
    /\ PipelineInit
    /\ cArgs \in [called : { TRUE }, d : AuditResults]
    /\ cRes = NoCall /\ qArgs = NoCall /\ qRes = NoCall

CallCompareNS ==
    /\ cArgs # NoCall /\ cRes = NoCall
    /\ \E nilPanics \in BOOLEAN :
         cRes' = [called |-> TRUE, nilPanics |-> nilPanics,
                  c |-> compareNS(requiredNS, cArgs.d, nilPanics)]
    /\ UNCHANGED << cfgVars, prodVars, mainVars, workerVars, qArgs, qRes, cArgs,
                    inChan, outChan, outClosed, wg, nsCache, lookups >>

CompareNext == CallCompareNS

SpecCompare == CompareInit /\ [][CompareNext]_vars


(***************************************************************************)
(* Properties.                                                             *)
(***************************************************************************)
\* some step of the audit of result r failed: domainParent (Error is set),
\* the registrar query (queryNS left RegistrarNS nil) or the zone query
\* (queryNS left ZoneNS nil)
AuditFailed(r) ==
    r.Error # NoErr \/ ~r.RegistrarNS.populated \/ ~r.ZoneNS.populated

\* main takes a result from outChan in its aggregation loop
AggregateStep ==
    pcMain = "aggregate" /\ Len(outChan) > 0 /\ outChan' = Tail(outChan)

\* C1: no domain is dropped: when main reaches the statistics, the count of
\* aggregated domains equals the number of lines of the domain file (every
\* domain was received by a worker, audited and its result aggregated).
C1_NoDomainDropped ==
    pcMain \in { "stats", "exit" } => totalDomains = Len(file)

\* C2: the run never deadlocks on the output queue: in no reachable state is
\* a worker blocked sending to a full outChan while main, which alone drains
\* outChan, waits for the workers to finish.
C2_NoSendDeadlock ==
    ~ ( /\ pcMain = "wait"
        /\ \E w \in Workers : pc[w] = "send" /\ Len(outChan) = argsCB )

\* C3: checkDomain records every failure on the result: when it returns an
\* error to the worker, the DomainNS it returns carries that error in Error.
C3_FailureRecorded ==
    \A w \in Workers :
        (pc[w] = "send" /\ err[w] # NoErr) => domainNS[w].Error = err[w]

\* C4: nsCache is accessed under mutual exclusion: no two workers are inside
\* an access of the map at the same time when one of them writes.
C4_CacheMutex ==
    \A v, w \in Workers :
        v # w => ~ (pc[v] = "cacheWrite" /\ pc[w] \in { "cacheRead", "cacheWrite" })

\* the four differences of compareNS for result d, written as plain sets
FourDiffs(required, d) ==
    << required.elems \ d.RegistrarNS.elems,
       d.RegistrarNS.elems \ required.elems,
       d.ZoneNS.elems \ d.RegistrarNS.elems,
       d.RegistrarNS.elems \ d.ZoneNS.elems >>

FourTexts ==
    << "Required, not in registrar", "In registrar, not required",
       "In zone, not in registrar", "In registrar, not in zone" >>

\* C5: for a result without error, whenever compareNS returns, its count is
\* the number of non-empty sets among required-registrar, registrar-required,
\* zone-registrar and registrar-zone (one per non-empty difference whatever
\* its size); each non-empty difference is printed with its members, the
\* first two as ERROR and the last two as WARN; OK is printed exactly when
\* the count is zero, and the count is zero when both sets equal required.
C5_CompareCounts ==
    (cRes # NoCall /\ cArgs.d.Error = NoErr /\ ~cRes.c.panic) =>
        LET D == FourDiffs(requiredNS, cArgs.d)
            n == Cardinality({ k \in 1..4 : D[k] # {} })
            out == cRes.c.out
        IN /\ cRes.c.errors = n
           /\ \A k \in 1..4 :
                  (D[k] # {}) <=>
                      (\E j \in 1..Len(out) :
                           out[j] = Line(IF k <= 2 THEN "ERROR" ELSE "WARN",
                                         FourTexts[k], D[k]))
           /\ (\E j \in 1..Len(out) : out[j].level = "OK") <=> (n = 0)
           /\ (cArgs.d.RegistrarNS = requiredNS /\ cArgs.d.ZoneNS = requiredNS)
                  => cRes.c.errors = 0

\* C5 witness: compareNS returned 4 for a result all of whose four
\* differences are non-empty, one of them with two members
C5_Witness ==
    /\ cRes # NoCall /\ cArgs.d.Error = NoErr /\ ~cRes.c.panic
    /\ Cardinality(cArgs.d.RegistrarNS.elems \ requiredNS.elems) = 2
    /\ \A k \in 1..4 : FourDiffs(requiredNS, cArgs.d)[k] # {}
    /\ cRes.c.errors = 4

\* C6: every aggregated result adds to totalErrors a count in 0..4 when no
\* step of its audit failed, and exactly 1 when a step failed.
C6_IssueCountRange ==
    [][ AggregateStep =>
            IF AuditFailed(Head(outChan))
            THEN totalErrors' = totalErrors + 1
            ELSE totalErrors' - totalErrors \in 0..4 ]_vars

\* C7: every result in outChan has either no error and both sets populated,
\* or an error and neither set populated.
C7_ResultShape ==
    \A k \in 1..Len(outChan) :
        LET r == outChan[k] IN
        \/ r.Error = NoErr /\ r.RegistrarNS.populated /\ r.ZoneNS.populated
        \/ r.Error # NoErr /\ ~r.RegistrarNS.populated /\ ~r.ZoneNS.populated

\* the attempts among the first argsRE that succeed
Succeeding(net) == { k \in 1..argsRE : net[k].err = NoErr }

\* C8: query returns the response of the first attempt that succeeds, with
\* no error, having sent exactly that many attempts; and it never sends more
\* than argsRE attempts.
C8_FirstSuccess ==
    qRes # NoCall =>
        LET q == qRes.query
            ok == Succeeding(qArgs.net)
        IN /\ q.sent <= argsRE
           /\ ok # {} =>
                  LET first == CHOOSE k \in ok : \A j \in ok : k <= j IN
                  q.r = qArgs.net[first].r /\ q.err = NoErr /\ q.sent = first

\* C8 witness: 3 attempts configured, the first two fail, the third succeeds
\* and its response is returned with no error
C8_Witness ==
    /\ qRes # NoCall /\ argsRE = 3
    /\ qArgs.net[1].err # NoErr /\ qArgs.net[2].err # NoErr /\ qArgs.net[3].err = NoErr
    /\ qRes.query = [r |-> qArgs.net[3].r, err |-> NoErr, sent |-> 3]

\* C9 as stated: when all argsRE attempts fail, query has sent exactly argsRE
\* attempts and returns no response and an error that names the domain, the
\* server, the attempt count and the last failure.
C9_ExhaustedNamesCount ==
    (qRes # NoCall /\ argsRE >= 1 /\ Succeeding(qArgs.net) = {}) =>
        LET q == qRes.query IN
        /\ q.sent = argsRE
        /\ q.r = NilMsg
        /\ q.err # NoErr
        /\ q.err.domain = qArgs.domain
        /\ q.err.server = qArgs.server
        /\ q.err.last = qArgs.net[argsRE].err.msg
        /\ "attempts" \in DOMAIN q.err
        /\ q.err.attempts = argsRE

\* C9 amended: when all argsRE attempts fail, query has sent exactly argsRE
\* attempts and returns no response (even when the last attempt handed back a
\* message) and an error that names the domain, the server and the last
\* failure.
C9_Exhausted ==
    (qRes # NoCall /\ argsRE >= 1 /\ Succeeding(qArgs.net) = {}) =>
        LET q == qRes.query IN
        /\ q.sent = argsRE
        /\ q.r = NilMsg
        /\ q.err # NoErr
        /\ q.err.kind = "retries"
        /\ q.err.domain = qArgs.domain
        /\ q.err.server = qArgs.server
        /\ q.err.last = qArgs.net[argsRE].err.msg

\* C9 witness: 3 attempts configured, all fail, the last one handing back a
\* message; query returned no response and the error
C9_Witness ==
    /\ qRes # NoCall /\ argsRE = 3 /\ Succeeding(qArgs.net) = {}
    /\ qArgs.net[3].r # NilMsg
    /\ qRes.query.r = NilMsg /\ qRes.query.err # NoErr /\ qRes.query.sent = 3

\* C10: a result whose audit failed is aggregated as one domain, one domain
\* with issues and one issue, and compareNS performs none of the four
\* comparisons for it.
C10_FailedAggregatedOnce ==
    [][ (AggregateStep /\ AuditFailed(Head(outChan))) =>
            /\ totalDomains' = totalDomains + 1
            /\ domainsWithErrors' = domainsWithErrors + 1
            /\ totalErrors' = totalErrors + 1
            /\ \A nilPanics \in BOOLEAN :
                   compareNS(requiredNS, Head(outChan), nilPanics).compared = 0 ]_vars


\* the answers of the resolver for parent zone p that the run holds: one per
\* worker that got a non-empty answer and is writing it to nsCache, and one
\* when nsCache has an entry for p
AnswersHeld(p) ==
    Cardinality({ w \in Workers : pc[w] = "cacheWrite" /\ ParentOf(domain[w]) = p })
        + (IF CacheHas(nsCache, p) THEN 1 ELSE 0)

\* C11: for each parent zone the resolver is asked for the parent's NS
\* records once in a run, whatever the number of domains under the parent
\* and however the workers interleave: it is never asked more than once,
\* and so the run never holds two answers of the resolver for one parent.
C11_OneLookupPerParent ==
    \A p \in Parents : AnswersHeld(p) <= 1

\* C12: a cache entry, once present, is never removed nor replaced by an
\* entry with another host for the same parent zone.
C12_CacheEntryStable ==
    [][ \A e \in nsCache : e \in nsCache' ]_vars


\* no send is blocked: the producer is not held at a full inChan and no
\* worker is held at a full outChan
NoSendBlocked ==
    /\ ~ (pcProd = "scan" /\ scanned < Len(file) /\ Len(inChan) = argsCB)
    /\ \A w \in Workers : pc[w] = "send" => Len(outChan) < argsCB

\* the results the workers have written to outChan: the domains taken from
\* inChan, less those still with a worker
ResultsWritten ==
    scanned - Len(inChan)
        - Cardinality({ w \in Workers : pc[w] \notin { "idle", "select", "exited" } })

\* the run came to its end as designed: the workers have finished, outChan
\* is closed and the aggregator has taken every result written
RunCompleted ==
    /\ \A w \in 1..argsW : pc[w] = "exited"
    /\ outClosed
    /\ outChan = << >>
    /\ totalDomains = ResultsWritten

\* C13: with a channel buffer larger than the number of domains no send on
\* inChan or outChan ever blocks, and the run is not cut short: the process
\* does not die before the statistics, and at the statistics every started
\* worker has finished, outChan is closed and drained of every result.
C13_LargeBufferRuns ==
    argsCB > Len(file) =>
        /\ NoSendBlocked
        /\ pcMain \notin { "panic", "fatal" }
        /\ pcMain \in { "stats", "exit" } => RunCompleted


\* s ends with exactly one "."
OneTrailingDot(s) ==
    /\ Len(s) >= 1 /\ s[Len(s)] = "."
    /\ Len(s) >= 2 => s[Len(s) - 1] # "."

\* C19: the domain checkDomain works on ends with exactly one trailing dot,
\* whether or not the line of the file ended with a dot, and so does the
\* parent zone derived from it.
C19_OneTrailingDot ==
    \A w \in Workers :
        domain[w] # NoDomain =>
            OneTrailingDot(domain[w]) /\ OneTrailingDot(ParentOf(domain[w]))


\* C14: outChan is closed only after every worker has finished: whenever
\* outChan is closed, every started worker has returned (none is running or
\* holds a result it has yet to send).
C14_CloseAfterWorkers ==
    outClosed => \A w \in 1..argsW : pc[w] = "exited"

\* C14 witness: outChan is closed with results of two finished workers in it
C14_Witness ==
    /\ outClosed /\ argsW = 2 /\ Len(outChan) = 2
    /\ \A w \in 1..argsW : pc[w] = "exited"

\* C15: the aggregator leaves its loop only on the close signal of outChan,
\* and by then it has taken and counted every result the workers wrote.
C15_DrainedAtLoopExit ==
    pcMain \in { "stats", "exit" } =>
        /\ outClosed
        /\ Len(outChan) = 0
        /\ totalDomains = ResultsWritten

\* C15 witness: the loop was left after two results were counted
C15_Witness ==
    pcMain = "stats" /\ totalDomains = 2 /\ ResultsWritten = 2

\* C16: the steps of one domain are ordered locate, registrar query, zone
\* query, and a failure ends them: a worker is at the registrar query only
\* after locate succeeded and before any query result exists; it is at the
\* zone query only after the registrar query succeeded; and a result whose
\* locate failed, or whose registrar query failed, has no zone set.
C16_StepsInOrder ==
    \A w \in Workers :
        LET d == domainNS[w] IN
        /\ pc[w] = "queryRegistrar" =>
               /\ d.Error = NoErr /\ err[w] = NoErr
               /\ zoneNS[w] \in Hosts /\ parentNS[w] \in Hosts
               /\ ~d.RegistrarNS.populated /\ ~d.ZoneNS.populated
        /\ pc[w] = "queryZone" =>
               /\ d.Error = NoErr /\ err[w] = NoErr
               /\ d.RegistrarNS.populated /\ ~d.ZoneNS.populated
        /\ (pc[w] = "send" /\ d.Error # NoErr) =>
               ~d.RegistrarNS.populated /\ ~d.ZoneNS.populated
        /\ (pc[w] = "send" /\ ~d.RegistrarNS.populated) => ~d.ZoneNS.populated

\* C16 witness: the registrar query of a located domain failed and the
\* worker is at its send without a zone set
C16_Witness ==
    \E w \in Workers :
        /\ pc[w] = "send" /\ err[w] # NoErr /\ err[w].kind = "retries"
        /\ domainNS[w].Error = NoErr /\ parentNS[w] \in Hosts
        /\ ~domainNS[w].RegistrarNS.populated /\ ~domainNS[w].ZoneNS.populated

\* the first hosts of the non-empty answers the resolver can give
FirstHosts == { l.hosts[1] : l \in { x \in Lookups : x.err = NoErr /\ Len(x.hosts) > 0 } }

\* C20: nsCache changes only by a worker storing, for its parent zone, the
\* first host of a non-empty answer of the resolver; a locate that fails
\* (zone lookup or parent lookup failed or empty) sets Error and leaves
\* nsCache as it was; a cache hit makes no resolver call for the parent;
\* and the resolver is asked for a parent only by a worker that missed.
C20_CacheWrittenOnSuccess ==
    [][ /\ nsCache' # nsCache =>
               \E w \in Workers :
                   /\ pc[w] = "cacheWrite" /\ pc'[w] = "queryRegistrar"
                   /\ parentNS[w] \in FirstHosts
                   /\ nsCache' = { e \in nsCache : e.parent # ParentOf(domain[w]) }
                                     \cup { [parent |-> ParentOf(domain[w]), host |-> parentNS[w]] }
        /\ \A w \in Workers :
               (pc[w] \in { "lookupZone", "lookupParent" } /\ pc'[w] = "send") =>
                   (nsCache' = nsCache /\ domainNS'[w].Error # NoErr)
        /\ \A w \in Workers :
               (pc[w] = "cacheRead" /\ pc'[w] = "queryRegistrar") =>
                   (lookups' = lookups /\ nsCache' = nsCache)
        /\ lookups' # lookups =>
               \E w \in Workers :
                   /\ pc[w] = "lookupParent"
                   /\ lookups' = [lookups EXCEPT ![ParentOf(domain[w])] = @ + 1] ]_vars

\* C20 witness: nsCache holds an entry written after a successful parent
\* lookup, and a later locate under the same parent has failed
C20_Witness ==
    /\ nsCache # {}
    /\ \E w \in Workers :
           /\ pc[w] = "send" /\ domainNS[w].Error # NoErr
           /\ CacheHas(nsCache, ParentOf(domain[w]))
           /\ lookups[ParentOf(domain[w])] = 1


\* the response query hands to queryNS: that of the first succeeding attempt
FirstResponse(net) ==
    net[CHOOSE k \in Succeeding(net) : \A j \in Succeeding(net) : k <= j].r

\* the hosts named by the NS records of a section
NSHostsOf(section) ==
    { h \in Hosts : \E k \in 1..Len(section) : section[k] = RRNS(h) }

\* C17: when the query is answered with a success response, the registrar
\* view is the set of the hosts of the NS records of its Ns (authority)
\* section and the zone view the set of the hosts of the NS records of its
\* Answer section: duplicates collapse, records that are not NS and the
\* records of the other section add nothing.
C17_SectionOfView ==
    (qRes # NoCall /\ Succeeding(qArgs.net) # {}
       /\ FirstResponse(qArgs.net).Rcode = RcodeSuccess) =>
        /\ qRes.registrar.err = NoErr
        /\ qRes.registrar.set = NewSet(NSHostsOf(FirstResponse(qArgs.net).Ns))
        /\ qRes.zone.err = NoErr
        /\ qRes.zone.set = NewSet(NSHostsOf(FirstResponse(qArgs.net).Answer))

\* C17 witness: the response has NS ns2. and an A record in Ns, and an A
\* record and NS ns1. twice in Answer; the views are {ns2.} and {ns1.}
C17_Witness ==
    /\ qRes # NoCall /\ Succeeding(qArgs.net) # {}
    /\ FirstResponse(qArgs.net) =
           Msg(RcodeSuccess, << RRNS("ns2."), RRA("ns1.") >>,
               << RRA("ns2."), RRNS("ns1."), RRNS("ns1.") >>)
    /\ qRes.registrar.set = NewSet({ "ns2." })
    /\ qRes.zone.set = NewSet({ "ns1." })

\* C18: when the query is answered with a response whose Rcode is not
\* success, queryNS returns the bad-response error for the domain and no
\* set, for either view, and no attempt follows the one that was answered.
C18_BadRcodeFails ==
    (qRes # NoCall /\ Succeeding(qArgs.net) # {}
       /\ FirstResponse(qArgs.net).Rcode # RcodeSuccess) =>
        \A v \in { qRes.queryNS, qRes.registrar, qRes.zone } :
            /\ v.err = [kind |-> "rcode", msg |-> "Bad response for domain",
                        domain |-> qArgs.domain]
            /\ v.set = NilSet
            /\ v.sent = CHOOSE k \in Succeeding(qArgs.net) :
                            \A j \in Succeeding(qArgs.net) : k <= j

\* C18 witness: 3 attempts configured, the first is answered SERVFAIL with
\* an NS record in its Ns section; one attempt was sent and no set returned
C18_Witness ==
    /\ qRes # NoCall /\ argsRE = 3
    /\ qArgs.net[1].err = NoErr /\ qArgs.net[1].r.Rcode # RcodeSuccess
    /\ Len(qArgs.net[1].r.Ns) > 0
    /\ qRes.registrar.sent = 1 /\ qRes.registrar.set = NilSet
    /\ qRes.registrar.err.kind = "rcode"

====
